---- MODULE Spec2Model ----
(***************************************************************************)
(* The filter-expression compiler of jaq-core (src/jaq-core/src/parse.rs): *)
(* the transformation of a concrete syntax tree (pest Pairs) into the      *)
(* Filter AST.  One compiler run is a small state machine:                 *)
(*     start --Parse / GrammarReject--> built --ConvertToPath--> converted *)
(* The conversions are pure functions and are written as operators that    *)
(* follow the code arm by arm.  A panic (unwrap, assert, todo!,            *)
(* unreachable!) is a value that every enclosing construction propagates,  *)
(* the first one in evaluation order winning.                              *)
(***************************************************************************)
EXTENDS Integers, Sequences, FiniteSets, TLC

VARIABLES pc, input, result, conv

vars == <<pc, input, result, conv>>

(***************************************************************************)
(* Bounds of the explored inputs.                                          *)
(***************************************************************************)
\* operators in a chain drawn from the whole table, operands path or atom
MaxOps == 2
\* operators in a chain of the pipe, comma, logic and arithmetic tiers
MaxPrecOps == 3
\* arguments of a function call
MaxArgs == 4
\* heads and bracket qualifiers of a path
MaxPathToks == 3

(***************************************************************************)
(* Concrete syntax: a pest Pair is a rule, its source text and its inner   *)
(* pairs.                                                                  *)
(***************************************************************************)
Pair(rule, str, inner) == [rule |-> rule, str |-> str, inner |-> inner]

(***************************************************************************)
(* The AST.  Filter = Ref(..) | New(..); Path = Vec<PathElem<Filter>>.     *)
(* Option<T> is a sequence of at most one T.                               *)
(***************************************************************************)
None == << >>
Some(x) == <<x>>

AtomNull == [ty |-> "Null"]
AtomBool(b) == [ty |-> "Bool", b |-> b]
AtomNum(n) == [ty |-> "Num", n |-> n]
AtomStr(s) == [ty |-> "Str", s |-> s]

NewAtom(a) == [kind |-> "New", tag |-> "Atom", atom |-> a]
NewArray(f) == [kind |-> "New", tag |-> "Array", f |-> f]
NewObject(kvs) == [kind |-> "New", tag |-> "Object", entries |-> kvs]
NewLogic(l, op, r) == [kind |-> "New", tag |-> "Logic", l |-> l, op |-> op, r |-> r]
NewMath(l, op, r) == [kind |-> "New", tag |-> "Math", l |-> l, op |-> op, r |-> r]
NewFunction(fn, args) == [kind |-> "New", tag |-> "Function", fn |-> fn, args |-> args]

RefPipe(l, r) == [kind |-> "Ref", tag |-> "Pipe", l |-> l, r |-> r]
RefComma(l, r) == [kind |-> "Ref", tag |-> "Comma", l |-> l, r |-> r]
RefEmpty == [kind |-> "Ref", tag |-> "Empty"]
RefIfThenElse(c, t, e) == [kind |-> "Ref", tag |-> "IfThenElse", cond |-> c, truth |-> t, falsity |-> e]
RefAssign(p, f) == [kind |-> "Ref", tag |-> "Assign", path |-> p, f |-> f]
RefUpdate(p, f) == [kind |-> "Ref", tag |-> "Update", path |-> p, f |-> f]
RefFirst(f) == [kind |-> "Ref", tag |-> "First", args |-> <<f>>]
RefLast(f) == [kind |-> "Ref", tag |-> "Last", args |-> <<f>>]
RefRecurse(f) == [kind |-> "Ref", tag |-> "Recurse", args |-> <<f>>]
RefLimit(n, f) == [kind |-> "Ref", tag |-> "Limit", args |-> <<n, f>>]
RefFold(i, u, x) == [kind |-> "Ref", tag |-> "Fold", args |-> <<i, u, x>>]
RefPath(p) == [kind |-> "Ref", tag |-> "Path", path |-> p]

Index(f) == [elem |-> "Index", index |-> f]
Range(from, until) == [elem |-> "Range", from |-> from, until |-> until]

\* crate::filter, not part of parse.rs: the empty path passes its input through
RefIdentity == RefPath(<< >>)
\* crate::filter, not part of parse.rs: keep the input iff f is truthy
RefSelect(f) == RefIfThenElse(f, RefIdentity, RefEmpty)

\* a panic of the compiler, named after the place that raises it
Panic(what) == [kind |-> "Panic", tag |-> what]
IsPanic(f) == f.kind = "Panic"

RECURSIVE FirstPanic(_)
\* the first panic among filters evaluated in sequence order, if any
FirstPanic(fs) ==
    IF fs = << >> THEN None
    ELSE IF IsPanic(Head(fs)) THEN Some(Head(fs))
    ELSE FirstPanic(Tail(fs))

(***************************************************************************)
(* PREC_CLIMBER: the Vec of operator groups; a group's precedence is its   *)
(* position in the Vec, and every operator carries its associativity.      *)
(***************************************************************************)
Operator(rule, assoc) == [rule |-> rule, assoc |-> assoc]

\* a table that lists the multiplicative group before the additive one
PrecClimberMulBeforeAdd ==
    << {Operator("pipe", "Left")},
       {Operator("comma", "Left")},
       {Operator("assign", "Right"), Operator("update", "Right"), Operator("update_with", "Right")},
       {Operator("or", "Left")},
       {Operator("and", "Left")},
       {Operator("eq", "Left"), Operator("ne", "Left")},
       {Operator("gt", "Left"), Operator("ge", "Left"), Operator("lt", "Left"), Operator("le", "Left")},
       {Operator("mul", "Left"), Operator("div", "Left")},
       {Operator("add", "Left"), Operator("sub", "Left")},
       {Operator("rem", "Left")} >>

\* a table whose assignment tier associates to the left like every other tier
PrecClimberAssignLeft ==
    << {Operator("pipe", "Left")},
       {Operator("comma", "Left")},
       {Operator("assign", "Left"), Operator("update", "Left"), Operator("update_with", "Left")},
       {Operator("or", "Left")},
       {Operator("and", "Left")},
       {Operator("eq", "Left"), Operator("ne", "Left")},
       {Operator("gt", "Left"), Operator("ge", "Left"), Operator("lt", "Left"), Operator("le", "Left")},
       {Operator("add", "Left"), Operator("sub", "Left")},
       {Operator("mul", "Left"), Operator("div", "Left")},
       {Operator("rem", "Left")} >>

PREC_CLIMBER ==
    << {Operator("pipe", "Left")},
       {Operator("comma", "Left")},
       {Operator("assign", "Right"), Operator("update", "Right"), Operator("update_with", "Right")},
       {Operator("or", "Left")},
       {Operator("and", "Left")},
       {Operator("eq", "Left"), Operator("ne", "Left")},
       {Operator("gt", "Left"), Operator("ge", "Left"), Operator("lt", "Left"), Operator("le", "Left")},
       {Operator("add", "Left"), Operator("sub", "Left")},
       {Operator("mul", "Left"), Operator("div", "Left")},
       {Operator("rem", "Left")} >>

\* self.ops.get(&rule): is the rule an operator of the table
IsOp(rule) == \E i \in DOMAIN PREC_CLIMBER : \E o \in PREC_CLIMBER[i] : o.rule = rule
Prec(rule) == CHOOSE i \in DOMAIN PREC_CLIMBER : \E o \in PREC_CLIMBER[i] : o.rule = rule
\* a lookup that forgets the associativity stored with the operator
AssocLeft(rule) == "Left"
Assoc(rule) == (CHOOSE o \in PREC_CLIMBER[Prec(rule)] : o.rule = rule).assoc

(***************************************************************************)
(* Operator tables.                                                        *)
(***************************************************************************)
LogicOpTryFrom(rule) ==
    CASE rule = "or" -> Some("Or")
      [] rule = "and" -> Some("And")
      [] rule = "eq" -> Some("Eq")
      [] rule = "ne" -> Some("Ne")
      [] rule = "gt" -> Some("Gt")
      [] rule = "ge" -> Some("Ge")
      [] rule = "lt" -> Some("Lt")
      [] rule = "le" -> Some("Le")
      [] OTHER -> None

MathOpTryFrom(rule) ==
    CASE rule = "add" -> Some("Add")
      [] rule = "sub" -> Some("Sub")
      [] rule = "mul" -> Some("Mul")
      [] rule = "div" -> Some("Div")
      [] rule = "rem" -> Some("Rem")
      [] OTHER -> None

(***************************************************************************)
(* TryFrom<Filter> for Path: only Ref::Path converts.                      *)
(***************************************************************************)
PathTryFrom(f) ==
    IF f.kind = "Ref" /\ f.tag = "Path" THEN [ok |-> TRUE, path |-> f.path]
    ELSE [ok |-> FALSE, path |-> << >>]

(***************************************************************************)
(* The infix closure handed to PREC_CLIMBER.climb.                         *)
(***************************************************************************)
\* a desugaring that puts the identity on the right of the operator
UpdateWithSwapped(path, op, rhs) == RefUpdate(path, NewMath(rhs, op, RefIdentity))
\* a desugaring that loses the right operand
UpdateWithDropsRhs(path, op, rhs) == RefUpdate(path, NewMath(RefIdentity, op, RefIdentity))
\* the update_with arm: path |= (. op rhs)
UpdateWith(path, op, rhs) == RefUpdate(path, NewMath(RefIdentity, op, rhs))

Infix(lhs, op, rhs) ==
    IF IsPanic(lhs) THEN lhs
    ELSE IF IsPanic(rhs) THEN rhs
    ELSE
    LET p == PathTryFrom(lhs) IN
    CASE op.rule = "assign" ->
            IF p.ok THEN RefAssign(p.path, rhs) ELSE Panic("assign: left side is not a path")
      [] op.rule = "update" ->
            IF p.ok THEN RefUpdate(p.path, rhs) ELSE Panic("update: left side is not a path")
      [] op.rule = "update_with" ->
            IF op.inner = << >> THEN Panic("update_with: no operator")
            ELSE LET m == MathOpTryFrom(op.inner[1].rule) IN
                 IF m = None THEN Panic("update_with: not an arithmetic operator")
                 ELSE IF p.ok THEN UpdateWith(p.path, m[1], rhs)
                 ELSE Panic("update_with: left side is not a path")
      [] op.rule = "pipe" -> RefPipe(lhs, rhs)
      [] op.rule = "comma" -> RefComma(lhs, rhs)
      [] OTHER ->
            IF LogicOpTryFrom(op.rule) # None THEN NewLogic(lhs, LogicOpTryFrom(op.rule)[1], rhs)
            ELSE IF MathOpTryFrom(op.rule) # None THEN NewMath(lhs, MathOpTryFrom(op.rule)[1], rhs)
            ELSE Panic("unreachable")

(***************************************************************************)
(* Literal decoding: From<Pair> for Atom.  The number and boolean texts    *)
(* are parsed; a text that does not parse is an unwrap on an error.        *)
(***************************************************************************)
NumText == <<"0", "1", "2", "3", "4", "5", "6", "7", "8", "9">>

\* str::parse::<Number>: the number a decimal text denotes, if it is one
ParseNumber(s) ==
    IF \E i \in DOMAIN NumText : NumText[i] = s
    THEN Some((CHOOSE i \in DOMAIN NumText : NumText[i] = s) - 1)
    ELSE None

\* str::parse::<bool>
ParseBool(s) ==
    IF s = "true" THEN Some(TRUE) ELSE IF s = "false" THEN Some(FALSE) ELSE None

AtomFrom(pair) ==
    CASE pair.rule = "null" -> NewAtom(AtomNull)
      [] pair.rule = "boole" ->
            IF ParseBool(pair.str) = None THEN Panic("boole: unwrap")
            ELSE NewAtom(AtomBool(ParseBool(pair.str)[1]))
      [] pair.rule = "number" ->
            IF ParseNumber(pair.str) = None THEN Panic("number: unwrap")
            ELSE NewAtom(AtomNum(ParseNumber(pair.str)[1]))
      [] pair.rule = "string" ->
            IF pair.inner = << >> THEN Panic("string: unwrap")
            ELSE NewAtom(AtomStr(pair.inner[1].str))
      [] OTHER -> Panic("unreachable")

(***************************************************************************)
(* Function resolution by name and argument count.                         *)
(***************************************************************************)
TryFrom0(name) ==
    CASE name = "empty" -> Some(RefEmpty)
      [] name = "any" -> Some(NewFunction("Any", << >>))
      [] name = "all" -> Some(NewFunction("All", << >>))
      [] name = "not" -> Some(NewFunction("Not", << >>))
      [] name = "length" -> Some(NewFunction("Length", << >>))
      [] name = "type" -> Some(NewFunction("Type", << >>))
      [] name = "add" -> Some(NewFunction("Add", << >>))
      [] OTHER -> None

TryFrom1(name, arg1) ==
    CASE name = "first" -> Some(RefFirst(arg1))
      [] name = "last" -> Some(RefLast(arg1))
      [] name = "map" -> Some(NewFunction("Map", <<arg1>>))
      [] name = "select" -> Some(RefSelect(arg1))
      [] name = "recurse" -> Some(RefRecurse(arg1))
      [] OTHER -> None

\* a binary table that hands the arguments over in the wrong order
TryFrom2Swapped(name, arg1, arg2) ==
    CASE name = "limit" -> Some(RefLimit(arg2, arg1))
      [] OTHER -> None

TryFrom2(name, arg1, arg2) ==
    CASE name = "limit" -> Some(RefLimit(arg1, arg2))
      [] OTHER -> None

\* Filter::try_from(name, args): args are the filters the iterator yields
FilterTryFrom(name, args) ==
    IF Len(args) >= 1 THEN
        IF Len(args) >= 2 THEN
            IF Len(args) >= 3 THEN
                IF Len(args) >= 4 THEN None
                ELSE CASE name = "fold" -> Some(RefFold(args[1], args[2], args[3]))
                       [] OTHER -> None
            ELSE TryFrom2(name, args[1], args[2])
        ELSE TryFrom1(name, args[1])
    ELSE TryFrom0(name)

(***************************************************************************)
(* PathElem::from_index: the key text and whether a `?` follows it.        *)
(***************************************************************************)
FromIndex(pair) ==
    LET iter == pair.inner IN
    IF iter = << >> \/ iter[1].inner = << >> THEN [ok |-> FALSE, index |-> "", question |-> FALSE]
    ELSE IF Len(iter) > 2 THEN [ok |-> FALSE, index |-> "", question |-> FALSE]
    ELSE [ok |-> TRUE, index |-> iter[1].inner[1].str, question |-> Len(iter) >= 2]

\* the panic a path element carries, if building one of its filters panicked
ElemPanic(e) ==
    IF e.elem = "Index" THEN FirstPanic(<<e.index>>)
    ELSE FirstPanic(e.from \o e.until)

RECURSIVE Flatten(_)
\* Iterator::flat_map: the concatenation of the yielded sequences
Flatten(ss) == IF ss = << >> THEN << >> ELSE Head(ss) \o Flatten(Tail(ss))

Min(a, b) == IF a <= b THEN a ELSE b

(***************************************************************************)
(* The AST builder and the precedence climbing it drives.                  *)
(*   FromPairs   impl From<Pairs> for Filter  (PREC_CLIMBER.climb)         *)
(*   ClimbRec    the loop of PrecClimber::climb_rec over operators of at   *)
(*               least min_prec                                            *)
(*   ClimbRhs    its inner loop, which extends the right operand while a   *)
(*               tighter (or equal and right associative) operator follows *)
(*   FromPair    impl From<Pair> for Filter                                *)
(* pairs is the whole sequence and i the position of the peeked pair.      *)
(***************************************************************************)
RECURSIVE FromPairs(_), ClimbRec(_, _, _, _), ClimbRhs(_, _, _, _), FromPair(_)
RECURSIVE FromRange(_), FromPath(_)

ClimbRhs(rhs, prec, pairs, i) ==
    IF i > Len(pairs) THEN [val |-> rhs, pos |-> i]
    ELSE LET rule == pairs[i].rule IN
         IF IsOp(rule) /\ (Prec(rule) > prec \/ (Assoc(rule) = "Right" /\ Prec(rule) = prec))
         THEN LET r == ClimbRec(rhs, Prec(rule), pairs, i)
              IN ClimbRhs(r.val, prec, pairs, r.pos)
         ELSE [val |-> rhs, pos |-> i]

ClimbRec(lhs, min_prec, pairs, i) ==
    IF i > Len(pairs) THEN [val |-> lhs, pos |-> i]
    ELSE LET rule == pairs[i].rule IN
         IF IsOp(rule) /\ Prec(rule) >= min_prec
         THEN IF i + 1 > Len(pairs)
              THEN [val |-> Infix(lhs, pairs[i], Panic("climb: operator without operand")), pos |-> i + 1]
              ELSE LET r == ClimbRhs(FromPair(pairs[i + 1]), Prec(rule), pairs, i + 2)
                   IN ClimbRec(Infix(lhs, pairs[i], r.val), min_prec, pairs, r.pos)
         ELSE [val |-> lhs, pos |-> i]

FromPairs(pairs) ==
    IF pairs = << >> THEN Panic("climb: empty Pairs")
    ELSE ClimbRec(FromPair(pairs[1]), 0, pairs, 2).val

\* a qualifier reader that takes `e:` for `:e` and the other way round
FromRangeSwapped(pair) ==
    IF pair.inner = << >> THEN Range(None, None)
    ELSE LET range == pair.inner[1] IN
         CASE range.rule = "at" -> Index(FromPairs(range.inner))
           [] range.rule = "from" -> Range(None, Some(FromPairs(range.inner)))
           [] range.rule = "until" -> Range(Some(FromPairs(range.inner)), None)
           [] range.rule = "from_until" ->
                 Range(Some(FromPair(range.inner[1])), Some(FromPair(range.inner[2])))
           [] OTHER -> Index(Panic("unreachable"))

\* PathElem::from_range: one bracket qualifier
FromRange(pair) ==
    IF pair.inner = << >> THEN Range(None, None)
    ELSE LET range == pair.inner[1] IN
         CASE range.rule = "at" -> Index(FromPairs(range.inner))
           [] range.rule = "from" -> Range(Some(FromPairs(range.inner)), None)
           [] range.rule = "until" -> Range(None, Some(FromPairs(range.inner)))
           [] range.rule = "from_until" ->
                 LET iter == [k \in 1..Min(Len(range.inner), 3) |-> FromPair(range.inner[k])] IN
                 IF iter = << >> THEN Index(Panic("from_until: unwrap"))
                 ELSE IF Len(iter) = 1 THEN Range(Some(iter[1]), Some(Panic("from_until: unwrap")))
                 ELSE IF Len(iter) = 2 \/ IsPanic(iter[1]) \/ IsPanic(iter[2])
                      THEN Range(Some(iter[1]), Some(iter[2]))
                 ELSE Index(IF IsPanic(iter[3]) THEN iter[3] ELSE Panic("from_until: assert"))
           [] OTHER -> Index(Panic("unreachable"))

\* a part reader that forgets the key of the head
FromPathQualifiersOnly(pair) ==
    [k \in 1..(Len(pair.inner) - 1) |-> FromRange(pair.inner[k + 1])]

\* PathElem::from_path: the elements of one head with its qualifiers
FromPath(pair) ==
    LET iter == pair.inner IN
    IF iter = << >> THEN <<Index(Panic("from_path: unwrap"))>>
    ELSE LET index == iter[1]
             head == IF index.rule = "path_index"
                     THEN IF FromIndex(index).ok
                          THEN <<Index(NewAtom(AtomStr(FromIndex(index).index)))>>
                          ELSE <<Index(Panic("from_index"))>>
                     ELSE << >>
         IN head \o [k \in 1..(Len(iter) - 1) |-> FromRange(iter[k + 1])]

FromPair(pair) ==
    LET inner == pair.inner IN
    CASE pair.rule = "expr" -> FromPairs(inner)
      [] pair.rule = "atom" ->
            IF inner = << >> THEN Panic("atom: unwrap") ELSE AtomFrom(inner[1])
      [] pair.rule = "array" ->
            LET contents == IF inner = << >> THEN RefEmpty ELSE FromPairs(inner)
            IN IF IsPanic(contents) THEN contents ELSE NewArray(contents)
      [] pair.rule = "object" ->
            LET Key(kv) ==
                    IF kv.inner = << >> THEN Panic("object: unwrap")
                    ELSE LET key == kv.inner[1] IN
                         CASE key.rule = "identifier" -> NewAtom(AtomStr(key.str))
                           [] key.rule = "string" -> AtomFrom(key)
                           [] key.rule = "expr" -> FromPair(key)
                           [] OTHER -> Panic("unreachable")
                Value(kv) ==
                    IF Len(kv.inner) >= 2 THEN FromPair(kv.inner[2]) ELSE Panic("todo")
                Check(kv) ==
                    IF Len(kv.inner) > 2 THEN <<Panic("object: assert")>> ELSE << >>
                raised == FirstPanic(Flatten([k \in 1..Len(inner) |->
                              <<Key(inner[k])>> \o (IF IsPanic(Key(inner[k])) THEN << >>
                                                  ELSE <<Value(inner[k])>> \o Check(inner[k]))]))
            IN IF raised # None THEN raised[1]
               ELSE NewObject([k \in 1..Len(inner) |->
                                  [key |-> Key(inner[k]), value |-> Value(inner[k])]])
      [] pair.rule = "ite" ->
            LET ite == [k \in 1..Min(Len(inner), 4) |-> FromPair(inner[k])]
                raised == FirstPanic(SubSeq(ite, 1, Min(Len(ite), 3)))
            IN IF raised # None THEN raised[1]
               ELSE IF Len(inner) < 3 THEN Panic("ite: unwrap")
               ELSE IF Len(inner) > 3 THEN (IF IsPanic(ite[4]) THEN ite[4] ELSE Panic("ite: assert"))
               ELSE RefIfThenElse(ite[1], ite[2], ite[3])
      [] pair.rule = "function" ->
            IF inner = << >> THEN Panic("function: unwrap")
            ELSE LET name == inner[1].str
                     args == IF Len(inner) < 2 THEN << >> ELSE inner[2].inner
                     \* the iterator is lazy: try_from pulls at most four arguments
                     pulled == [k \in 1..Min(Len(args), 4) |-> FromPair(args[k])]
                 IN IF Len(inner) > 2 THEN Panic("function: assert")
                    ELSE IF FirstPanic(pulled) # None THEN FirstPanic(pulled)[1]
                    ELSE IF FilterTryFrom(name, pulled) = None
                         THEN Panic("function: unwrap on None")
                         ELSE FilterTryFrom(name, pulled)[1]
      [] pair.rule = "path" ->
            LET elems == Flatten([k \in 1..Len(inner) |-> FromPath(inner[k])])
                raised == Flatten([k \in 1..Len(elems) |-> ElemPanic(elems[k])])
            IN IF raised # << >> THEN raised[1] ELSE RefPath(elems)
      [] OTHER -> Panic("unreachable")

(***************************************************************************)
(* The inputs: concrete syntax trees as the grammar hands them over        *)
(* (grammar.pest: an expression is a flat run of operands and operators, a *)
(* path is a run of parts, each a head with its bracket qualifiers).  An   *)
(* input is described by its family and its tokens; Cst builds the Pairs.  *)
(***************************************************************************)
KeyName == <<"a", "b", "c", "d", "e", "f">>

OpToken(rule, inner) == [rule |-> rule, inner |-> inner]

MathRules == {"add", "sub", "mul", "div", "rem"}
LogicRules == {"or", "and", "eq", "ne", "gt", "ge", "lt", "le"}
\* the operators of the pipe, comma, logic and arithmetic tiers
PrecTokens == {OpToken(r, "") : r \in {"pipe", "comma"} \cup LogicRules \cup MathRules}
\* the operators of the assignment tier; a compound update holds its operator
AssignTokens == {OpToken("assign", ""), OpToken("update", "")}
                    \cup {OpToken("update_with", r) : r \in MathRules}
OpTokens == PrecTokens \cup AssignTokens

FuncNames == {"empty", "any", "all", "not", "length", "type", "add", "first", "last",
              "map", "select", "recurse", "limit", "fold", "foo"}

Heads == {"dot", "key", "key?"}
Qualifiers == {"all", "at", "from", "until", "from_until"}

MiscShapes == {"[]", "[1,2]", "{a: 1}", "{\"a\": 1}", "{(1): 2}", "{a}", "if 1 then 2 else 3 end",
               "null", "true", "\"a\"", "[1 = 2]"}

Input(fam, ops, opnds, name, flag, toks) ==
    [fam |-> fam, ops |-> ops, opnds |-> opnds, name |-> name, flag |-> flag, toks |-> toks]

\* operand (op operand)*, at most MaxOps operators of the whole table
IsChainInput(in) ==
    \E n \in 0..MaxOps : \E o \in [1..n -> OpTokens] : \E k \in [1..(n + 1) -> {"path", "atom"}] :
        in = Input("expr", o, k, "", FALSE, << >>)

\* number (op number)*, at most MaxPrecOps operators outside the assignment tier
IsPrecInput(in) ==
    \E n \in 0..MaxPrecOps : \E o \in [1..n -> PrecTokens] :
        in = Input("expr", o, [j \in 1..(n + 1) |-> "atom"], "", FALSE, << >>)

\* name, name() and name(arg; ...): flag tells whether an argument list is written
IsCallInput(in) ==
    \E n \in 0..MaxArgs : \E f \in FuncNames : \E k \in [1..n -> {"atom", "dot"}] : \E b \in BOOLEAN :
        in = Input("call", << >>, k, f, n > 0 \/ b, << >>)

\* a path: a head, then heads and qualifiers
IsPathInput(in) ==
    \E n \in 1..MaxPathToks : \E t \in [1..n -> Heads \cup Qualifiers] :
        /\ t[1] \in Heads
        /\ in = Input("path", << >>, << >>, "", FALSE, t)

IsMiscInput(in) == \E m \in MiscShapes : in = Input("misc", << >>, << >>, m, FALSE, << >>)

\* a text the grammar rejects
SyntaxErrorInput == Input("syntax", << >>, << >>, "", FALSE, << >>)

NumberPair(n) == Pair("atom", "", <<Pair("number", NumText[n + 1], << >>)>>)
ExprPair(pairs) == Pair("expr", "", pairs)

\* the number written in the qualifier at position i of a path (`.a.b[0]`)
QualNum(i) == (2 * i + 4) % 10

HeadPair(tok, i) ==
    IF tok = "dot" THEN Pair("dot", ".", << >>)
    ELSE Pair("path_index", "",
              <<Pair("index_key", "", <<Pair("identifier", KeyName[i], << >>)>>)>>
                  \o (IF tok = "key?" THEN <<Pair("question", "?", << >>)>> ELSE << >>))

RangePair(tok, i) ==
    LET e1 == ExprPair(<<NumberPair(QualNum(i))>>)
        e2 == ExprPair(<<NumberPair(QualNum(i) + 1)>>)
    IN Pair("path_range", "",
            CASE tok = "all" -> << >>
              [] tok = "at" -> <<Pair("at", "", <<e1>>)>>
              [] tok = "from" -> <<Pair("from", "", <<e1>>)>>
              [] tok = "until" -> <<Pair("until", "", <<e1>>)>>
              [] tok = "from_until" -> <<Pair("from_until", "", <<e1, e2>>)>>)

\* the path of a run of heads and qualifiers: one part per head
PathPair(toks, base) ==
    LET heads == {i \in DOMAIN toks : toks[i] \in Heads}
        nth(k) == CHOOSE i \in heads : Cardinality({j \in heads : j < i}) = k - 1
        last(i) == IF \E j \in heads : j > i
                   THEN (CHOOSE j \in heads : j > i /\ \A m \in heads : m > i => j <= m) - 1
                   ELSE Len(toks)
        part(i) == Pair("path_part", "",
                        <<HeadPair(toks[i], base + i)>>
                            \o [q \in 1..(last(i) - i) |-> RangePair(toks[i + q], base + i + q)])
    IN Pair("path", "", [k \in 1..Cardinality(heads) |-> part(nth(k))])

\* the operand at position i of a chain or of an argument list
OperandPair(kind, i) ==
    CASE kind = "atom" -> NumberPair(i)
      [] kind = "path" -> PathPair(<<"key">>, i - 1)
      [] kind = "dot" -> PathPair(<<"dot">>, i - 1)

OpPair(tok) ==
    Pair(tok.rule, "", IF tok.inner = "" THEN << >> ELSE <<Pair(tok.inner, "", << >>)>>)

ChainPairs(ops, opnds) ==
    [j \in 1..(2 * Len(ops) + 1) |->
        IF j % 2 = 1 THEN OperandPair(opnds[(j + 1) \div 2], (j + 1) \div 2)
        ELSE OpPair(ops[j \div 2])]

FunctionPair(name, opnds, written) ==
    Pair("function", "",
         <<Pair("identifier", name, << >>)>>
             \o (IF written
                 THEN <<Pair("args", "", [k \in DOMAIN opnds |-> ExprPair(<<OperandPair(opnds[k], k)>>)])>>
                 ELSE << >>))

MiscPair(shape) ==
    LET n(k) == ExprPair(<<NumberPair(k)>>)
        a == Pair("identifier", "a", << >>)
    IN CASE shape = "[]" -> Pair("array", "", << >>)
         [] shape = "[1,2]" -> Pair("array", "", <<NumberPair(1), OpPair(OpToken("comma", "")), NumberPair(2)>>)
         [] shape = "[1 = 2]" -> Pair("array", "", <<NumberPair(1), OpPair(OpToken("assign", "")), NumberPair(2)>>)
         [] shape = "{a: 1}" -> Pair("object", "", <<Pair("object_kv", "", <<a, n(1)>>)>>)
         [] shape = "{\"a\": 1}" ->
               Pair("object", "", <<Pair("object_kv", "", <<Pair("string", "\"a\"", <<Pair("inner", "a", << >>)>>), n(1)>>)>>)
         [] shape = "{(1): 2}" -> Pair("object", "", <<Pair("object_kv", "", <<n(1), n(2)>>)>>)
         [] shape = "{a}" -> Pair("object", "", <<Pair("object_kv", "", <<a>>)>>)
         [] shape = "if 1 then 2 else 3 end" -> Pair("ite", "", <<n(1), n(2), n(3)>>)
         [] shape = "null" -> Pair("atom", "", <<Pair("null", "null", << >>)>>)
         [] shape = "true" -> Pair("atom", "", <<Pair("boole", "true", << >>)>>)
         [] shape = "\"a\"" -> Pair("atom", "", <<Pair("string", "\"a\"", <<Pair("inner", "a", << >>)>>)>>)

\* FilterParser::parse(Rule::main, s) of an accepted text: the expression, then EOI
Cst(in) ==
    LET terms == CASE in.fam = "expr" -> ChainPairs(in.ops, in.opnds)
                   [] in.fam = "call" -> <<FunctionPair(in.name, in.opnds, in.flag)>>
                   [] in.fam = "path" -> <<PathPair(in.toks, 0)>>
                   [] in.fam = "misc" -> <<MiscPair(in.name)>>
    IN <<ExprPair(terms), Pair("EOI", "", << >>)>>

(***************************************************************************)
(* The compiler run.                                                       *)
(***************************************************************************)
NoFilter == [kind |-> "None", tag |-> ""]
NoResult == [outcome |-> "none", val |-> NoFilter]
NoConv == [ok |-> FALSE, path |-> << >>]

Init ==
    /\ pc = "start"
    /\ \/ IsChainInput(input)
       \/ IsPrecInput(input)
       \/ IsCallInput(input)
       \/ IsPathInput(input)
       \/ IsMiscInput(input)
       \/ input = SyntaxErrorInput
    /\ result = NoResult
    /\ conv = NoConv

\* Filter::parse, the grammar rejects the text: `?` returns the pest error
GrammarReject ==
    /\ pc = "start"
    /\ input.fam = "syntax"
    /\ result' = [outcome |-> "Err", val |-> NoFilter]
    /\ pc' = "built"
    /\ UNCHANGED <<input, conv>>

\* the value Filter::parse produces from the Pairs of an accepted text
ParseOutcome(pairs) ==
    LET f == FromPairs(pairs) IN
    IF IsPanic(f) THEN [outcome |-> "panic", val |-> f] ELSE [outcome |-> "Ok", val |-> f]

\* Filter::parse, the grammar accepts the text: Ok(Self::from(pairs))
Parse ==
    /\ pc = "start"
    /\ input.fam # "syntax"
    /\ result' = ParseOutcome(Cst(input))
    /\ pc' = "built"
    /\ UNCHANGED <<input, conv>>

\* Path::try_from on the filter the compiler returned
ConvertToPath ==
    /\ pc = "built"
    /\ result.outcome = "Ok"
    /\ conv' = PathTryFrom(result.val)
    /\ pc' = "converted"
    /\ UNCHANGED <<input, result>>

Next == GrammarReject \/ Parse \/ ConvertToPath

Spec == Init /\ [][Next]_vars

(***************************************************************************)
(* What the documentation says is built, stated independently of the       *)
(* builder above.                                                          *)
(***************************************************************************)
Built == pc # "start"

Num(n) == NewAtom(AtomNum(n))
Key(i) == RefPath(<<Index(NewAtom(AtomStr(KeyName[i])))>>)

\* the filter of the operand at position i
DocOperand(kind, i) ==
    CASE kind = "atom" -> Num(i)
      [] kind = "path" -> Key(i)
      [] kind = "dot" -> RefPath(<< >>)

\* the documented precedence tiers outside the assignment tier, lowest first
DocTier(rule) ==
    CASE rule = "pipe" -> 1
      [] rule = "comma" -> 2
      [] rule = "or" -> 3
      [] rule = "and" -> 4
      [] rule \in {"eq", "ne"} -> 5
      [] rule \in {"gt", "ge", "lt", "le"} -> 6
      [] rule \in {"add", "sub"} -> 7
      [] rule \in {"mul", "div"} -> 8
      [] rule = "rem" -> 9

DocOpTag(rule) ==
    CASE rule = "or" -> "Or" [] rule = "and" -> "And" [] rule = "eq" -> "Eq" [] rule = "ne" -> "Ne"
      [] rule = "gt" -> "Gt" [] rule = "ge" -> "Ge" [] rule = "lt" -> "Lt" [] rule = "le" -> "Le"
      [] rule = "add" -> "Add" [] rule = "sub" -> "Sub" [] rule = "mul" -> "Mul"
      [] rule = "div" -> "Div" [] rule = "rem" -> "Rem"

\* the operator rule a binary node of the tree stands for
NodeRule(f) ==
    CASE f.tag = "Pipe" -> "pipe"
      [] f.tag = "Comma" -> "comma"
      [] f.tag = "Assign" -> "assign"
      [] f.tag = "Update" -> "update"
      [] f.tag \in {"Logic", "Math"} ->
            CHOOSE r \in LogicRules \cup MathRules : DocOpTag(r) = f.op

IsBinary(f) == f.tag \in {"Pipe", "Comma", "Logic", "Math"}
IsPathOp(f) == f.tag \in {"Assign", "Update"}

RECURSIVE InOrder(_)
\* the operands and operators of a tree, read from left to right
InOrder(f) ==
    IF IsBinary(f) THEN InOrder(f.l) \o <<[op |-> NodeRule(f)]>> \o InOrder(f.r)
    ELSE IF IsPathOp(f) THEN <<[leaf |-> RefPath(f.path)], [op |-> NodeRule(f)]>> \o InOrder(f.f)
    ELSE <<[leaf |-> f]>>

\* the operator rules in a tree
OpsIn(f) == {InOrder(f)[k].op : k \in {j \in DOMAIN InOrder(f) : "op" \in DOMAIN InOrder(f)[j]}}

RECURSIVE WellNested(_)
\* no operator has a looser operator below it, nor one of its own tier to its right
WellNested(f) ==
    IF ~IsBinary(f) THEN TRUE
    ELSE /\ \A r \in OpsIn(f.l) : DocTier(r) >= DocTier(NodeRule(f))
         /\ \A r \in OpsIn(f.r) : DocTier(r) > DocTier(NodeRule(f))
         /\ WellNested(f.l)
         /\ WellNested(f.r)

\* the input chain as written: operand, operator, operand, ...
Written(in) ==
    [j \in 1..(2 * Len(in.ops) + 1) |->
        IF j % 2 = 1 THEN [leaf |-> DocOperand(in.opnds[(j + 1) \div 2], (j + 1) \div 2)]
        ELSE [op |-> in.ops[j \div 2].rule]]

\* the input chain with every compound update `op=` written out as `|= . op`
Desugared(in) ==
    Flatten([j \in 1..(2 * Len(in.ops) + 1) |->
        IF j % 2 = 1 THEN <<[leaf |-> DocOperand(in.opnds[(j + 1) \div 2], (j + 1) \div 2)]>>
        ELSE IF in.ops[j \div 2].rule = "update_with"
             THEN <<[op |-> "update"], [leaf |-> RefIdentity], [op |-> in.ops[j \div 2].inner]>>
             ELSE <<[op |-> in.ops[j \div 2].rule]>>])

T(rule) == OpToken(rule, "")
Chain(ops, opnds) == Input("expr", ops, opnds, "", FALSE, << >>)
Atoms(n) == [j \in 1..n |-> "atom"]

(***************************************************************************)
(* C1: a chain of operands joined by operators of the pipe, comma, logic   *)
(* and arithmetic tiers is built into the tree the precedence table        *)
(* dictates: every operator sits above the tighter operators it spans,     *)
(* operators of one tier associate to the left, and the operands keep      *)
(* their order.  `1 + 2 * 3` is Math(1, Add, Math(2, Mul, 3)) and          *)
(* `1 | 2, 3` is Pipe(1, Comma(2, 3)).                                     *)
(***************************************************************************)
C1_Precedence ==
    (Built /\ input.fam = "expr" /\ \A k \in DOMAIN input.ops : input.ops[k] \in PrecTokens) =>
        /\ result.outcome = "Ok"
        /\ InOrder(result.val) = Written(input)
        /\ WellNested(result.val)
        /\ input = Chain(<<T("add"), T("mul")>>, Atoms(3)) =>
               result.val = NewMath(Num(1), "Add", NewMath(Num(2), "Mul", Num(3)))
        /\ input = Chain(<<T("pipe"), T("comma")>>, Atoms(3)) =>
               result.val = RefPipe(Num(1), RefComma(Num(2), Num(3)))

\* `1 + 2 * 3 - 4` has been built as (1 + (2 * 3)) - 4
C1_Witness ==
    /\ pc = "built"
    /\ input = Chain(<<T("add"), T("mul"), T("sub")>>, Atoms(4))
    /\ result.val = NewMath(NewMath(Num(1), "Add", NewMath(Num(2), "Mul", Num(3))), "Sub", Num(4))

(***************************************************************************)
(* C2: the operators of the assignment tier associate to the right: for    *)
(* paths p1, p2 and an operand r, `p1 o1 p2 o2 r` is built as the node of  *)
(* o1 on p1 around the node of o2 on p2; `p1 |= p2 |= r` is                *)
(* Update(p1, Update(p2, r)).                                              *)
(***************************************************************************)
\* the documented node of an assignment-tier operator on a path
DocPathNode(tok, path, rhs) ==
    CASE tok.rule = "assign" -> RefAssign(path, rhs)
      [] tok.rule = "update" -> RefUpdate(path, rhs)
      [] tok.rule = "update_with" -> RefUpdate(path, NewMath(RefIdentity, DocOpTag(tok.inner), rhs))

\* C2: `p1 o1 p2 o2 r` with o1, o2 of the assignment tier is node(o1, p1, node(o2, p2, r))
C2_RightAssociative ==
    (/\ Built
     /\ input.fam = "expr"
     /\ Len(input.ops) = 2
     /\ input.ops[1] \in AssignTokens /\ input.ops[2] \in AssignTokens
     /\ input.opnds[1] = "path" /\ input.opnds[2] = "path") =>
        /\ result.outcome = "Ok"
        /\ result.val = DocPathNode(input.ops[1], Key(1).path,
                            DocPathNode(input.ops[2], Key(2).path, DocOperand(input.opnds[3], 3)))
        /\ (input.ops = <<T("update"), T("update")>>) =>
               result.val = RefUpdate(Key(1).path, RefUpdate(Key(2).path, DocOperand(input.opnds[3], 3)))

\* `.a |= .b |= 3` has been built as Update(.a, Update(.b, 3))
C2_Witness ==
    /\ pc = "built"
    /\ input = Chain(<<T("update"), T("update")>>, <<"path", "path", "atom">>)
    /\ result.val = RefUpdate(Key(1).path, RefUpdate(Key(2).path, Num(3)))

(***************************************************************************)
(* C3: compiling the chained plain assignment `.a = .b = .c`.              *)
(***************************************************************************)
IsChainedAssign == input = Chain(<<T("assign"), T("assign")>>, <<"path", "path", "path">>)

\* C3 as stated: compiling `.a = .b = .c` fails and produces no AST
C3_Original == (Built /\ IsChainedAssign) => result.outcome # "Ok"

\* C3 as the code has it: `.a = .b = .c` compiles to Assign(.a, Assign(.b, .c)); the
\* non-path `.b = .c` is the right operand of the outer assignment, and only the
\* left operand has to be a path
C3_ChainedAssignCompiles ==
    (Built /\ IsChainedAssign) =>
        /\ result.outcome = "Ok"
        /\ result.val = RefAssign(Key(1).path, RefAssign(Key(2).path, Key(3)))

C3_Witness == pc = "built" /\ IsChainedAssign /\ result.val.tag = "Assign" /\ result.val.f.tag = "Assign"

(***************************************************************************)
(* C4: a compound update `p op= r` with a single operand r is built as     *)
(* Update(p, Math(identity, op, r)), the tree built for `p |= . op r`.     *)
(***************************************************************************)
\* the Pairs of `p |= . op r` for the compound update p op= r of the input
LongForm(in) ==
    <<ExprPair(<<OperandPair(in.opnds[1], 1), OpPair(T("update")), OperandPair("dot", 1),
                 OpPair(T(in.ops[1].inner)), OperandPair(in.opnds[2], 2)>>),
      Pair("EOI", "", << >>)>>

IsCompoundUpdate ==
    /\ input.fam = "expr"
    /\ Len(input.ops) = 1
    /\ input.ops[1].rule = "update_with"
    /\ input.opnds[1] = "path"

\* C4: `p op= r` is Update(p, Math(identity, op, r)), the tree built for `p |= . op r`
C4_CompoundUpdate ==
    (Built /\ IsCompoundUpdate) =>
        /\ result.outcome = "Ok"
        /\ result.val = RefUpdate(Key(1).path,
                            NewMath(RefIdentity, DocOpTag(input.ops[1].inner), DocOperand(input.opnds[2], 2)))
        /\ result = ParseOutcome(LongForm(input))

\* `.a += 2` has been built as Update(.a, Math(identity, Add, 2))
C4_Witness ==
    /\ pc = "built"
    /\ input = Chain(<<OpToken("update_with", "add")>>, <<"path", "atom">>)
    /\ result.val = RefUpdate(Key(1).path, NewMath(RefPath(<< >>), "Add", Num(2)))

(***************************************************************************)
(* C5: a call resolves exactly when its (name, argument count) is in the   *)
(* table, whatever the arguments are, and the built node holds the         *)
(* arguments in call order; `limit(1; .)` is Limit(1, identity).           *)
(***************************************************************************)
DocTable ==
    {<<n, 0>> : n \in {"empty", "any", "all", "not", "length", "type", "add"}}
        \cup {<<n, 1>> : n \in {"first", "last", "map", "select", "recurse"}}
        \cup {<<"limit", 2>>, <<"fold", 3>>}

\* the node a resolved name stands for
DocNodeTag(name) ==
    CASE name = "empty" -> "Empty"
      [] name \in {"any", "all", "not", "length", "type", "add", "map"} -> "Function"
      [] name = "first" -> "First"
      [] name = "last" -> "Last"
      [] name = "select" -> "IfThenElse"
      [] name = "recurse" -> "Recurse"
      [] name = "limit" -> "Limit"
      [] name = "fold" -> "Fold"

\* the arguments a built call node holds, in the order of its fields
ArgsOf(f) ==
    CASE f.tag = "Empty" -> << >>
      [] f.tag = "IfThenElse" -> <<f.cond>>
      [] OTHER -> f.args

\* C5: a call compiles iff its (name, argument count) is in the table; the node holds
\* the arguments in call order
C5_Resolution ==
    (Built /\ input.fam = "call") =>
        /\ result.outcome = "Ok" <=> <<input.name, Len(input.opnds)>> \in DocTable
        /\ result.outcome # "Ok" => result = [outcome |-> "panic", val |-> Panic("function: unwrap on None")]
        /\ result.outcome = "Ok" =>
               /\ result.val.tag = DocNodeTag(input.name)
               /\ ArgsOf(result.val) = [k \in DOMAIN input.opnds |-> DocOperand(input.opnds[k], k)]
        /\ (input.name = "limit" /\ input.opnds = <<"atom", "dot">>) =>
               result.val = RefLimit(Num(1), RefIdentity)

\* `limit(1; .)` has been resolved to Limit(1, identity)
C5_Witness ==
    /\ pc = "built"
    /\ input.fam = "call" /\ input.name = "limit" /\ input.opnds = <<"atom", "dot">>
    /\ result.outcome = "Ok"
    /\ result.val.tag = "Limit"

(***************************************************************************)
(* C6: the filter built from `.a.b[0]` converts to a Path.                 *)
(***************************************************************************)
IsABZero == input.fam = "path" /\ input.toks = <<"key", "key", "at">>

\* C6 as stated: the Path has two Index elements
C6_Original ==
    (pc = "converted" /\ IsABZero) =>
        /\ conv.ok
        /\ Len(conv.path) = 2
        /\ \A k \in DOMAIN conv.path : conv.path[k].elem = "Index"

\* C6 as the code has it: the conversion succeeds and the Path has three Index
\* elements, the keys "a" and "b" and the index 0
C6_ThreeIndexElements ==
    /\ (pc = "built" /\ IsABZero) => result.outcome = "Ok"
    /\ (pc = "converted" /\ IsABZero) =>
           /\ conv.ok
           /\ conv.path = <<Index(NewAtom(AtomStr("a"))), Index(NewAtom(AtomStr("b"))), Index(Num(0))>>

C6_Witness == pc = "converted" /\ IsABZero /\ conv.ok /\ Len(conv.path) = 3

(***************************************************************************)
(* C7: every bracket qualifier gives exactly one path element, of the      *)
(* shape its form fixes; a bare-dot head gives none; the elements come in  *)
(* source order.                                                           *)
(***************************************************************************)
\* the documented elements of the head or qualifier at position i
DocElems(tok, i) ==
    CASE tok = "dot" -> << >>
      [] tok \in {"key", "key?"} -> <<Index(NewAtom(AtomStr(KeyName[i])))>>
      [] tok = "all" -> <<Range(None, None)>>
      [] tok = "at" -> <<Index(Num(QualNum(i)))>>
      [] tok = "from" -> <<Range(Some(Num(QualNum(i))), None)>>
      [] tok = "until" -> <<Range(None, Some(Num(QualNum(i))))>>
      [] tok = "from_until" -> <<Range(Some(Num(QualNum(i))), Some(Num(QualNum(i) + 1)))>>

\* C7: the built Path is the documented elements of the heads and qualifiers, in order
C7_PathElements ==
    (Built /\ input.fam = "path") =>
        /\ result.outcome = "Ok"
        /\ result.val = RefPath(Flatten([i \in DOMAIN input.toks |-> DocElems(input.toks[i], i)]))

\* `.[8:9][:0]` has been built as the two ranges, in order
C7_Witness ==
    /\ pc = "built"
    /\ input.fam = "path" /\ input.toks = <<"dot", "from_until", "until">>
    /\ result.val = RefPath(<<Range(Some(Num(8)), Some(Num(9))), Range(None, Some(Num(0)))>>)

(***************************************************************************)
(* C8: a left operand of assign, update or a compound update that is not a *)
(* path makes Filter::parse return an error value; it does not panic.      *)
(***************************************************************************)
\* the first operator is of the assignment tier and its left operand is a number
\* (`1 = 2`), or the chain is `.a + 2 |= 3`, whose left operand is a Math node
HasInvalidTarget ==
    /\ input.fam = "expr"
    /\ \/ /\ Len(input.ops) >= 1
          /\ input.ops[1] \in AssignTokens
          /\ input.opnds[1] = "atom"
       \/ input = Chain(<<T("add"), T("update")>>, <<"path", "atom", "atom">>)

\* C8 as stated: an invalid assignment target ends Filter::parse with an error value
C8_ErrorValue == (Built /\ HasInvalidTarget) => result.outcome = "Err"

(***************************************************************************)
(* C9: a call whose (name, argument count) is not in the table makes       *)
(* Filter::parse return a recoverable error; it does not panic.            *)
(***************************************************************************)
\* C9 as stated: an unresolved call ends Filter::parse with an error value
C9_RecoverableError ==
    (Built /\ input.fam = "call" /\ <<input.name, Len(input.opnds)>> \notin DocTable) =>
        result.outcome = "Err"

(***************************************************************************)
(* C10: the tree of a chain that compiles holds the input operands in      *)
(* their order and the input operators between them.                       *)
(***************************************************************************)
\* the operator nodes of a tree
OperatorNodes(f) == Len(SelectSeq(InOrder(f), LAMBDA t : "op" \in DOMAIN t))
\* the operand leaves among the tokens of a reading
Leaves(toks) == SelectSeq(toks, LAMBDA t : "leaf" \in DOMAIN t)

RECURSIVE IdentityPlaced(_)
\* every identity leaf is the left operand of the Math node right under an Update
IdentityPlaced(f) ==
    IF IsBinary(f) THEN f.l # RefIdentity /\ f.r # RefIdentity /\ IdentityPlaced(f.l) /\ IdentityPlaced(f.r)
    ELSE IF IsPathOp(f) THEN
        /\ f.path # << >>
        /\ f.f # RefIdentity
        /\ IF f.tag = "Update" /\ f.f.tag = "Math" /\ f.f.l = RefIdentity
           THEN f.f.r # RefIdentity /\ IdentityPlaced(f.f.r)
           ELSE IdentityPlaced(f.f)
    ELSE TRUE

\* C10 as stated: one binary node per operator of the input, and the leaves are
\* the input operands with one identity per compound update
C10_Original ==
    (Built /\ input.fam = "expr" /\ result.outcome = "Ok") =>
        /\ OperatorNodes(result.val) = Len(input.ops)
        /\ Leaves(InOrder(result.val)) = Leaves(Desugared(input))

\* C10 as the code has it: a compound update contributes two nodes, the Update and
\* the Math of its desugaring, every other operator one; read from left to right
\* the tree is the input with each `op=` written out as `|= . op`, and every
\* identity leaf is the left operand of the Math node right under its Update
C10_OperandsKept ==
    (Built /\ input.fam = "expr" /\ result.outcome = "Ok") =>
        /\ InOrder(result.val) = Desugared(input)
        /\ OperatorNodes(result.val) =
               Len(input.ops) + Cardinality({k \in DOMAIN input.ops : input.ops[k].rule = "update_with"})
        /\ IdentityPlaced(result.val)

\* `.a += 2 * 3` has been built: Update(.a, Math(identity, Add, Math(2, Mul, 3)))
C10_Witness ==
    /\ pc = "built"
    /\ input = Chain(<<OpToken("update_with", "add"), T("mul")>>, <<"path", "atom", "atom">>)
    /\ result.val = RefUpdate(Key(1).path, NewMath(RefIdentity, "Add", NewMath(Num(2), "Mul", Num(3))))

====
